---- MODULE Spec2Model ----
(***************************************************************************)
(* A model of quiz_app.py: the Question classes, the QuizManager with its  *)
(* JSON persistence, the Quiz runner and the main menu loop.               *)
(*                                                                         *)
(* Text that the program inspects character by character (answers,         *)
(* correct answers, choices, typed numbers) is a sequence of one-character *)
(* strings.  Text that is only compared for equality (quiz names, dict     *)
(* keys, discriminators, menu choices) is a TLA+ string.  A Python dict is *)
(* a function on its keys; the iteration order of a dict is not modelled.  *)
(***************************************************************************)
EXTENDS Integers, Sequences, FiniteSets, TLC

VARIABLES
    file,       \* the persistence file quizzes.json
    file0,      \* the persistence file as it stood when the program started
    quizzes,    \* QuizManager.quizzes: quiz name -> list of questions
    pc,         \* where main() is: "init", "main", "edit", "quiz", "exited",
                \* "crashed" ("idle" when the program is not run)
    quiz_name,  \* the quiz_name of the running edit_quiz() or quiz run
    quiz,       \* the Quiz object of the running quiz: questions and score
    idx,        \* Quiz.start's loop position (number of questions asked so far)
    inp,        \* the lines read from stdin by the last step: the menu choice
                \* (menu), or a quiz answer (menu = "answer"), and what follows it
    out,        \* the lines printed since the last menu prompt
    err,        \* the exception that ended the program, if any
    gq, ganswer, gresult,     \* grading harness: question, answer, is_correct's value
    spc, sobj, srec, sout     \* serialisation harness: stage, object, dict, result

vars == <<file, file0, quizzes, pc, quiz_name, quiz, idx, inp, out, err,
          gq, ganswer, gresult, spc, sobj, srec, sout>>

mainVars  == <<file, file0, quizzes, pc, quiz_name, quiz, idx, inp, out, err>>
gradeVars == <<gq, ganswer, gresult>>
serdeVars == <<spc, sobj, srec, sout>>

-----------------------------------------------------------------------------
(* Bounds *)

\* Longest answer string drawn exhaustively from AnswerAlphabet.
MaxAnswerLen == 2

\* Cap on the number of questions held by the manager over all quizzes.
MaxQuestions == 3

-----------------------------------------------------------------------------
(* Python string and list built-ins used by the program *)

Whitespace == {" "}

UpperChars == <<"A","B","C","D","E","F","G","H","I","J","K","L","M",
                "N","O","P","Q","R","S","T","U","V","W","X","Y","Z">>
LowerChars == <<"a","b","c","d","e","f","g","h","i","j","k","l","m",
                "n","o","p","q","r","s","t","u","v","w","x","y","z">>
DigitChars == <<"0","1","2","3","4","5","6","7","8","9">>

Range(s) == {s[i] : i \in DOMAIN s}

\* str.lower() on one character
lower_char(c) ==
    IF c \in Range(UpperChars)
    THEN LowerChars[CHOOSE i \in DOMAIN UpperChars : UpperChars[i] = c]
    ELSE c

\* str.lower()
lower(s) == [i \in DOMAIN s |-> lower_char(s[i])]

RECURSIVE lstrip(_)
lstrip(s) ==
    IF s # <<>> /\ Head(s) \in Whitespace THEN lstrip(Tail(s)) ELSE s

RECURSIVE rstrip(_)
rstrip(s) ==
    IF s # <<>> /\ s[Len(s)] \in Whitespace
    THEN rstrip(SubSeq(s, 1, Len(s) - 1))
    ELSE s

\* str.strip()
strip(s) == rstrip(lstrip(s))

digit_value(c) == (CHOOSE i \in DOMAIN DigitChars : DigitChars[i] = c) - 1

RECURSIVE digits_value(_)
\* the value of a run of digits, underscores skipped
digits_value(s) ==
    IF s = <<>> THEN 0
    ELSE LET last == s[Len(s)]
             rest == SubSeq(s, 1, Len(s) - 1)
         IN IF last = "_" THEN digits_value(rest)
            ELSE 10 * digits_value(rest) + digit_value(last)

\* int(s): surrounding whitespace, an optional sign, digits with single
\* underscores between them; anything else is a ValueError.
int(s) ==
    LET t      == strip(s)
        signed == t # <<>> /\ Head(t) \in {"+", "-"}
        body   == IF signed THEN Tail(t) ELSE t
        valid  == /\ body # <<>>
                  /\ body[1] \in Range(DigitChars)
                  /\ body[Len(body)] \in Range(DigitChars)
                  /\ \A i \in 1..Len(body) :
                        \/ body[i] \in Range(DigitChars)
                        \/ (body[i] = "_" /\ body[i + 1] # "_")
    IN IF valid
       THEN [ok |-> TRUE,
             value |-> IF signed /\ Head(t) = "-"
                       THEN 0 - digits_value(body)
                       ELSE digits_value(body)]
       ELSE [ok |-> FALSE, error |-> "ValueError"]

\* lst[i] for a Python list and a 0-based index i: a negative index counts
\* from the end, an index outside [-len, len-1] is an IndexError.
list_index(lst, i) ==
    LET n == Len(lst)
    IN IF 0 <= i /\ i < n THEN [ok |-> TRUE, value |-> lst[i + 1]]
       ELSE IF 0 - n <= i /\ i < 0 THEN [ok |-> TRUE, value |-> lst[n + i + 1]]
       ELSE [ok |-> FALSE, error |-> "IndexError"]

RECURSIVE split(_, _)
\* s.split(sep) for a one-character separator
split(s, sep) ==
    IF \E i \in DOMAIN s : s[i] = sep
    THEN LET k == CHOOSE i \in DOMAIN s :
                      s[i] = sep /\ \A j \in 1..(i - 1) : s[j] # sep
         IN <<SubSeq(s, 1, k - 1)>> \o split(SubSeq(s, k + 1, Len(s)), sep)
    ELSE <<s>>

-----------------------------------------------------------------------------
(* The Question classes *)

\* Question(question_text, correct_answer)
Question(question_text, correct_answer) ==
    [class |-> "Question",
     question_text |-> question_text,
     correct_answer |-> correct_answer]

\* MultipleChoiceQuestion(question_text, choices, correct_answer)
MultipleChoiceQuestion(question_text, choices, correct_answer) ==
    [class |-> "MultipleChoiceQuestion",
     question_text |-> question_text,
     choices |-> choices,
     correct_answer |-> correct_answer]

\* TrueFalseQuestion(question_text, correct_answer)
TrueFalseQuestion(question_text, correct_answer) ==
    [class |-> "TrueFalseQuestion",
     question_text |-> question_text,
     correct_answer |-> correct_answer]

\* Question.is_correct, inherited by TrueFalseQuestion
Question_is_correct(q, answer) ==
    lower(strip(answer)) = lower(strip(q.correct_answer))

\* MultipleChoiceQuestion.is_correct
MultipleChoiceQuestion_is_correct(q, answer) ==
    LET parsed == int(answer)
    IN IF ~parsed.ok THEN FALSE                      \* except ValueError
       ELSE LET selected_index == parsed.value - 1
                picked == list_index(q.choices, selected_index)
            IN IF ~picked.ok THEN FALSE              \* except IndexError
               ELSE lower(strip(picked.value)) = lower(strip(q.correct_answer))

\* question.is_correct(answer), dispatched on the object's class
is_correct(q, answer) ==
    IF q.class = "MultipleChoiceQuestion"
    THEN MultipleChoiceQuestion_is_correct(q, answer)
    ELSE Question_is_correct(q, answer)

\* question.display(): the lines printed
display(q) ==
    IF q.class = "MultipleChoiceQuestion"
    THEN <<[line |-> "text", text |-> q.question_text]>>
         \o [i \in DOMAIN q.choices |->
                [line |-> "choice", idx |-> i, text |-> q.choices[i]]]
    ELSE IF q.class = "TrueFalseQuestion"
    THEN <<[line |-> "text", text |-> q.question_text],
           [line |-> "1. True"], [line |-> "2. False"]>>
    ELSE <<[line |-> "text", text |-> q.question_text]>>

\* to_dict with every subclass serialised by the base class's to_dict
to_dict_base_only(q) ==
    [type |-> "Question",
     question_text |-> q.question_text,
     correct_answer |-> q.correct_answer]

\* question.to_dict(), dispatched on the object's class
to_dict(q) ==
    IF q.class = "MultipleChoiceQuestion"
    THEN [type |-> "MultipleChoice",
          question_text |-> q.question_text,
          choices |-> q.choices,
          correct_answer |-> q.correct_answer]
    ELSE IF q.class = "TrueFalseQuestion"
    THEN [type |-> "TrueFalse",
          question_text |-> q.question_text,
          correct_answer |-> q.correct_answer]
    ELSE [type |-> "Question",
          question_text |-> q.question_text,
          correct_answer |-> q.correct_answer]

KeyError(key) == [ok |-> FALSE, error |-> "KeyError", key |-> key]

\* Question.from_dict(data)
Question_from_dict(data) ==
    IF "question_text" \notin DOMAIN data THEN KeyError("question_text")
    ELSE IF "correct_answer" \notin DOMAIN data THEN KeyError("correct_answer")
    ELSE [ok |-> TRUE,
          q |-> Question(data["question_text"], data["correct_answer"])]

\* MultipleChoiceQuestion.from_dict(data)
MultipleChoiceQuestion_from_dict(data) ==
    IF "question_text" \notin DOMAIN data THEN KeyError("question_text")
    ELSE IF "choices" \notin DOMAIN data THEN KeyError("choices")
    ELSE IF "correct_answer" \notin DOMAIN data THEN KeyError("correct_answer")
    ELSE [ok |-> TRUE,
          q |-> MultipleChoiceQuestion(data["question_text"], data["choices"],
                                       data["correct_answer"])]

\* TrueFalseQuestion.from_dict(data)
TrueFalseQuestion_from_dict(data) ==
    IF "question_text" \notin DOMAIN data THEN KeyError("question_text")
    ELSE IF "correct_answer" \notin DOMAIN data THEN KeyError("correct_answer")
    ELSE [ok |-> TRUE,
          q |-> TrueFalseQuestion(data["question_text"], data["correct_answer"])]

\* create_question with the fallback branch taken for "TrueFalse" as well
create_question_no_truefalse(data) ==
    IF "type" \notin DOMAIN data THEN KeyError("type")
    ELSE IF data["type"] = "MultipleChoice"
    THEN MultipleChoiceQuestion_from_dict(data)
    ELSE Question_from_dict(data)

\* QuizManager.create_question(data)
create_question(data) ==
    IF "type" \notin DOMAIN data THEN KeyError("type")
    ELSE LET question_type == data["type"]
         IN IF question_type = "MultipleChoice"
            THEN MultipleChoiceQuestion_from_dict(data)
            ELSE IF question_type = "TrueFalse"
            THEN TrueFalseQuestion_from_dict(data)
            ELSE Question_from_dict(data)

-----------------------------------------------------------------------------
(* The persistence file and the json module *)

\* Values as json.load returns them, tagged with their Python type.  The
\* dict of one question keeps its fields untagged: type is a string,
\* question_text and correct_answer are texts, choices is a list of texts.
PyDict(items) == [t |-> "dict", items |-> items]
PyList(items) == [t |-> "list", items |-> items]
PyInt(n)      == [t |-> "int", n |-> n]

AbsentFile  == [kind |-> "absent"]                 \* no file of that name
GarbageFile == [kind |-> "text", json |-> FALSE]   \* content json cannot parse
\* json.dump(value, file): the file then holds the JSON document of value
json_dump(value) == [kind |-> "text", json |-> TRUE, value |-> value]

TypeError(what) == [ok |-> FALSE, error |-> "TypeError", what |-> what]
AttributeError(what) == [ok |-> FALSE, error |-> "AttributeError", what |-> what]

RECURSIVE create_questions(_)
\* [self.create_question(q) for q in questions] for a list: the questions,
\* or the exception of the first entry that raises
create_questions(items) ==
    IF items = <<>> THEN [ok |-> TRUE, questions |-> <<>>]
    ELSE LET q == Head(items)
             first == IF q.t # "dict"
                      THEN TypeError("not subscriptable")    \* data["type"]
                      ELSE create_question(q.items)
         IN IF ~first.ok THEN first
            ELSE LET rest == create_questions(Tail(items))
                 IN IF ~rest.ok THEN rest
                    ELSE [ok |-> TRUE, questions |-> <<first.q>> \o rest.questions]

\* the list comprehension of load_quizzes over one value of the loaded dict
load_questions(questions) ==
    IF questions.t = "list" THEN create_questions(questions.items)
    ELSE IF questions.t = "dict"
    THEN IF DOMAIN questions.items = {}
         THEN [ok |-> TRUE, questions |-> <<>>]
         ELSE TypeError("string indices")       \* iterates the keys
    ELSE TypeError("not iterable")

\* QuizManager.load_quizzes().  With several failing entries the one whose
\* exception surfaces is the first in file order, which is not modelled.
load_quizzes(f) ==
    IF f.kind = "absent" THEN [ok |-> TRUE, quizzes |-> <<>>]  \* FileNotFoundError
    ELSE IF ~f.json THEN [ok |-> TRUE, quizzes |-> <<>>]       \* JSONDecodeError
    ELSE LET data == f.value
         IN IF data.t # "dict" THEN AttributeError("items")
            ELSE LET built == [name \in DOMAIN data.items |->
                                  load_questions(data.items[name])]
                     failed == {name \in DOMAIN built : ~built[name].ok}
                 IN IF failed # {}
                    THEN built[CHOOSE name \in failed : TRUE]
                    ELSE [ok |-> TRUE,
                          quizzes |-> [name \in DOMAIN built |->
                                          built[name].questions]]

\* save_quizzes that leaves out the quizzes without questions
save_quizzes_skip_empty(qz) ==
    json_dump(PyDict([name \in {n \in DOMAIN qz : qz[n] # <<>>} |->
        PyList([i \in DOMAIN qz[name] |-> PyDict(to_dict(qz[name][i]))])]))

\* QuizManager.save_quizzes(): the content written to the file
save_quizzes(qz) ==
    json_dump(PyDict([name \in DOMAIN qz |->
        PyList([i \in DOMAIN qz[name] |-> PyDict(to_dict(qz[name][i]))])]))

-----------------------------------------------------------------------------
(* QuizManager operations *)

Line(text) == [line |-> text]

\* QuizManager.display_quizzes(): the lines printed
display_quizzes(qz) ==
    <<[line |-> "Available Quizzes:", names |-> DOMAIN qz]>>

\* add_quiz without the existence check
add_quiz_overwrite(qz, name) ==
    [quizzes |-> [n \in DOMAIN qz \cup {name} |->
                     IF n = name THEN <<>> ELSE qz[n]],
     out |-> IF name \in DOMAIN qz
             THEN <<Line("Quiz already exists!")>>
             ELSE <<[line |-> "Quiz created.", name |-> name]>>]

\* QuizManager.add_quiz(quiz_name)
add_quiz(qz, name) ==
    IF name \in DOMAIN qz
    THEN [quizzes |-> qz, out |-> <<Line("Quiz already exists!")>>]
    ELSE [quizzes |-> [n \in DOMAIN qz \cup {name} |->
                          IF n = name THEN <<>> ELSE qz[n]],
          out |-> <<[line |-> "Quiz created.", name |-> name]>>]

\* edit_quiz without the existence check
edit_quiz_unchecked(qz, name) == TRUE

\* the existence check at the head of edit_quiz: whether the sub-loop is entered
edit_quiz_found(qz, name) == name \in DOMAIN qz

\* the question lines of remove_question_from_quiz and view_questions
question_list(questions) ==
    [i \in DOMAIN questions |->
        [line |-> "item", idx |-> i, text |-> questions[i].question_text]]

\* lst.pop() in place of lst.pop(i): the last element goes
pop_last(lst, i) == SubSeq(lst, 1, Len(lst) - 1)

\* lst.pop(i) for a 0-based index inside the list: the list left
pop(lst, i) == SubSeq(lst, 1, i) \o SubSeq(lst, i + 2, Len(lst))

\* QuizManager.add_question_to_quiz(quiz_name); typed holds the lines the
\* user types: the question type and, for a valid type, the fields
add_question_to_quiz(qz, name, typed) ==
    IF typed.type \notin {"1", "2", "3"}
    THEN [ok |-> TRUE, quizzes |-> qz, out |-> <<Line("Invalid option!")>>]
    ELSE LET question ==
                 IF typed.type = "1"
                 THEN MultipleChoiceQuestion(typed.question_text,
                                             split(typed.choices, ","),
                                             typed.correct_answer)
                 ELSE IF typed.type = "2"
                 THEN TrueFalseQuestion(typed.question_text, typed.correct_answer)
                 ELSE Question(typed.question_text, typed.correct_answer)
         IN IF name \notin DOMAIN qz THEN KeyError(name)
            ELSE [ok |-> TRUE,
                  quizzes |-> [qz EXCEPT ![name] = Append(@, question)],
                  out |-> <<Line("Question added!")>>]

\* QuizManager.remove_question_from_quiz(quiz_name); typed is the line the
\* user would type at the prompt, read only when the quiz has questions
remove_question_from_quiz(qz, name, typed) ==
    IF name \notin DOMAIN qz THEN KeyError(name)
    ELSE LET questions == qz[name]
         IN IF questions = <<>>
            THEN [ok |-> TRUE, quizzes |-> qz, read |-> FALSE,
                  out |-> <<Line("No questions to remove!")>>]
            ELSE LET parsed == int(typed)
                     listed == question_list(questions)
                 IN IF ~parsed.ok
                    THEN [ok |-> TRUE, quizzes |-> qz, read |-> TRUE,
                          out |-> listed \o <<Line("Invalid input!")>>]
                    ELSE LET choice == parsed.value
                         IN IF 1 <= choice /\ choice <= Len(questions)
                            THEN [ok |-> TRUE, read |-> TRUE,
                                  quizzes |-> [qz EXCEPT ![name] = pop(@, choice - 1)],
                                  out |-> listed \o
                                      <<[line |-> "Removed question",
                                         text |-> questions[choice].question_text]>>]
                            ELSE [ok |-> TRUE, quizzes |-> qz, read |-> TRUE,
                                  out |-> listed \o <<Line("Invalid question number!")>>]

\* QuizManager.view_questions(quiz_name)
view_questions(qz, name) ==
    IF name \notin DOMAIN qz THEN KeyError(name)
    ELSE [ok |-> TRUE, quizzes |-> qz,
          out |-> <<Line("Questions in Quiz")>> \o question_list(qz[name])]

-----------------------------------------------------------------------------
(* The Quiz runner *)

\* Quiz(questions)
Quiz(questions) == [questions |-> questions, score |-> 0]

\* the head of one iteration of Quiz.start, up to the prompt for the answer
ask(questions, i) ==
    <<[line |-> "Question", idx |-> i]>> \o display(questions[i])

\* grade_answer with the score kept outside the if
grade_answer_always_scores(question, score, answer) ==
    IF is_correct(question, answer)
    THEN [score |-> score + 1, out |-> <<Line("Correct!")>>]
    ELSE [score |-> score + 1,
          out |-> <<[line |-> "Wrong!", answer |-> question.correct_answer]>>]

\* the rest of the iteration: grade the answer, report, keep the score
grade_answer(question, score, answer) ==
    IF is_correct(question, answer)
    THEN [score |-> score + 1, out |-> <<Line("Correct!")>>]
    ELSE [score |-> score,
          out |-> <<[line |-> "Wrong!", answer |-> question.correct_answer]>>]

\* the last line of Quiz.start
finished(qz) ==
    <<[line |-> "Quiz Finished!", score |-> qz.score, total |-> Len(qz.questions)]>>

-----------------------------------------------------------------------------
(* Texts used as inputs *)

Paris  == <<"P","a","r","i","s">>
London == <<"L","o","n","d","o","n">>
Rome   == <<"R","o","m","e">>
Berlin == <<"B","e","r","l","i","n">>
Capital == <<"C","a","p","i","t","a","l","?">>
TwoPlusTwo == <<"2","+","2","?">>
Four   == <<"4">>
Five   == <<"5">>
SkyBlue == <<"S","k","y","?">>
TrueText  == <<"T","r","u","e">>
FalseText == <<"F","a","l","s","e">>

\* all sequences over S of length at most n
SeqsUpTo(S, n) == UNION {[1..k -> S] : k \in 0..n}

-----------------------------------------------------------------------------
(* Idle values of the variables a specification does not use *)

NoQuestion == [class |-> "None"]
NoRecord   == [unset |-> TRUE]
NoQuiz     == [unset |-> TRUE]
NoName     == "<unset>"
NoError    == [error |-> "none"]

MainIdle ==
    /\ file = AbsentFile
    /\ file0 = AbsentFile
    /\ quizzes = <<>>
    /\ pc = "idle"
    /\ quiz_name = NoName
    /\ quiz = NoQuiz
    /\ idx = 0
    /\ inp = <<>>
    /\ out = <<>>
    /\ err = NoError

GradeIdle == gq = NoQuestion /\ ganswer = <<>> /\ gresult = "idle"

SerdeIdle == spc = "idle" /\ sobj = NoQuestion /\ srec = NoRecord /\ sout = NoRecord

-----------------------------------------------------------------------------
(* Grading harness: is_correct applied to a drawn question and answer *)

AnswerAlphabet == {"0", "1", "2", "3", "-", " ", "a"}

ExtraAnswers ==
    {<<"9">>, <<"a","b","c">>, <<" ","T","r","u","e"," ">>, <<"t","r","u","e">>,
     <<" ","1"," ">>, <<"-","3">>, <<"-","4">>, <<"+","1">>, <<"0","_","1">>,
     <<"1","_">>, Four, Five, <<"P","A","R","I","S">>}

Answers == SeqsUpTo(AnswerAlphabet, MaxAnswerLen) \cup ExtraAnswers

ThreeCities == <<Paris, London, Rome>>

GradeQuestions ==
    {MultipleChoiceQuestion(Capital, ThreeCities, Paris),
     MultipleChoiceQuestion(Capital, ThreeCities, Rome),
     MultipleChoiceQuestion(Capital, ThreeCities, <<" ","r","o","m","e"," ">>),
     MultipleChoiceQuestion(Capital, ThreeCities, Berlin),
     MultipleChoiceQuestion(Capital, split(<<"P","a","r","i","s",","," ","R","o","m","e">>, ","), Rome),
     MultipleChoiceQuestion(Capital, <<>>, Paris),
     Question(TwoPlusTwo, Four),
     Question(Capital, <<" ","P","a","r","i","s">>),
     TrueFalseQuestion(SkyBlue, TrueText),
     TrueFalseQuestion(SkyBlue, <<"f","a","l","s","e"," ">>)}

InitGrade ==
    /\ MainIdle /\ SerdeIdle
    /\ gq \in GradeQuestions
    /\ ganswer \in Answers
    /\ gresult = "pending"

\* one call question.is_correct(answer)
Grade ==
    /\ gresult = "pending"
    /\ gresult' = IF is_correct(gq, ganswer) THEN "True" ELSE "False"
    /\ UNCHANGED <<gq, ganswer>>
    /\ UNCHANGED mainVars
    /\ UNCHANGED serdeVars

NextGrade == Grade

SpecGrade == InitGrade /\ [][NextGrade]_vars

-----------------------------------------------------------------------------
(* Serialisation harness: to_dict and create_question *)

SerdeTexts   == {Capital, <<>>}
SerdeAnswers == {Paris, <<" ","r","o","m","e">>, TrueText}
SerdeChoices == {ThreeCities, <<Rome>>, <<>>}

SerdeQuestions ==
    {Question(t, a) : t \in SerdeTexts, a \in SerdeAnswers}
    \cup {TrueFalseQuestion(t, a) : t \in SerdeTexts, a \in SerdeAnswers}
    \cup {MultipleChoiceQuestion(t, c, a) :
              t \in SerdeTexts, c \in SerdeChoices, a \in SerdeAnswers}

Discriminators == {"Question", "MultipleChoice", "TrueFalse", "Essay", ""}
RecordKeys == {"type", "question_text", "correct_answer", "choices"}

\* dicts as they may stand in a file: any subset of the keys, any discriminator
RawRecords ==
    {[k \in D |-> CASE k = "type" -> ty
                    [] k = "question_text" -> Capital
                    [] k = "correct_answer" -> Rome
                    [] OTHER -> ThreeCities] :
        D \in SUBSET RecordKeys, ty \in Discriminators}

InitSerde ==
    /\ MainIdle /\ GradeIdle
    /\ sout = NoRecord
    /\ \/ spc = "obj" /\ sobj \in SerdeQuestions /\ srec = NoRecord
       \/ spc = "rec" /\ sobj = NoQuestion /\ srec \in RawRecords

\* q.to_dict()
ToDict ==
    /\ spc = "obj"
    /\ srec' = to_dict(sobj)
    /\ spc' = "rec"
    /\ UNCHANGED <<sobj, sout>>
    /\ UNCHANGED mainVars
    /\ UNCHANGED gradeVars

\* QuizManager.create_question(data)
CreateQuestion ==
    /\ spc = "rec"
    /\ sout' = create_question(srec)
    /\ spc' = "done"
    /\ UNCHANGED <<sobj, srec>>
    /\ UNCHANGED mainVars
    /\ UNCHANGED gradeVars

NextSerde == ToDict \/ CreateQuestion

SpecSerde == InitSerde /\ [][NextSerde]_vars

-----------------------------------------------------------------------------
(* The program: main() over stdin, stdout and the persistence file *)

Names == {"Geo", "Math"}

InvalidChoices == {"6", ""}

EssayRecord ==
    [type |-> "Essay", question_text |-> TwoPlusTwo, correct_answer |-> Four]
NoChoicesRecord ==
    [type |-> "MultipleChoice", question_text |-> Capital, correct_answer |-> Rome]

\* the states the persistence file may be in when the program starts
InitialFiles ==
    {AbsentFile,
     GarbageFile,
     json_dump(PyList(<<>>)),
     json_dump(PyDict("Geo" :> PyInt(5))),
     json_dump(PyDict("Geo" :> PyList(<<PyInt(5)>>))),
     json_dump(PyDict("Geo" :> PyList(<<PyDict(NoChoicesRecord)>>))),
     json_dump(PyDict(("Geo" :> PyList(<<PyDict(EssayRecord)>>))
                      @@ ("Math" :> PyList(<<>>))))}

\* what the user may type when adding a question
AddInputs ==
    {[type |-> "1", question_text |-> Capital,
      choices |-> <<"P","a","r","i","s",",","R","o","m","e">>,
      correct_answer |-> Rome],
     [type |-> "2", question_text |-> SkyBlue, correct_answer |-> TrueText],
     [type |-> "3", question_text |-> TwoPlusTwo, correct_answer |-> Four],
     [type |-> "7"]}

\* what the user may type as the number of the question to remove
RemoveInputs ==
    {<<"1">>, <<"2">>, <<"3">>, <<" ","2"," ">>, <<"0">>, <<"-","1">>,
     <<"9">>, <<"x">>, <<>>}

\* what the user may answer in a quiz
QuizAnswers == {<<"1">>, <<"0">>, Four, <<" ","T","R","U","E">>}

TotalQuestions(qz) ==
    LET RECURSIVE sum(_)
        sum(S) == IF S = {} THEN 0
                  ELSE LET n == CHOOSE n \in S : TRUE
                       IN Len(qz[n]) + sum(S \ {n})
    IN sum(DOMAIN qz)

Init ==
    /\ GradeIdle /\ SerdeIdle
    /\ file \in InitialFiles
    /\ file0 = file
    /\ quizzes = <<>>
    /\ pc = "init"
    /\ quiz_name = NoName
    /\ quiz = NoQuiz
    /\ idx = 0
    /\ inp = [menu |-> "none"]
    /\ out = <<>>
    /\ err = NoError

\* manager = QuizManager(): __init__ loads the file
Construct ==
    /\ pc = "init"
    /\ LET loaded == load_quizzes(file)
       IN IF loaded.ok
          THEN /\ quizzes' = loaded.quizzes
               /\ pc' = "main"
               /\ err' = err
          ELSE /\ quizzes' = quizzes
               /\ pc' = "crashed"
               /\ err' = [error |-> loaded.error, where |-> "load_quizzes"]
    /\ UNCHANGED <<file, file0, quiz_name, quiz, idx, inp, out>>
    /\ UNCHANGED gradeVars
    /\ UNCHANGED serdeVars

\* main menu, choice "1"
ViewQuizzes ==
    /\ pc = "main"
    /\ inp' = [menu |-> "1"]
    /\ out' = display_quizzes(quizzes)
    /\ UNCHANGED <<file, file0, quizzes, pc, quiz_name, quiz, idx, err>>
    /\ UNCHANGED gradeVars
    /\ UNCHANGED serdeVars

\* main menu, choice "2"
AddQuiz ==
    /\ pc = "main"
    /\ \E name \in Names :
        LET r == add_quiz(quizzes, name)
        IN /\ inp' = [menu |-> "2", name |-> name]
           /\ quizzes' = r.quizzes
           /\ out' = r.out
    /\ UNCHANGED <<file, file0, pc, quiz_name, quiz, idx, err>>
    /\ UNCHANGED gradeVars
    /\ UNCHANGED serdeVars

\* main menu, choice "3": edit_quiz(quiz_name) up to its first prompt
EditQuiz ==
    /\ pc = "main"
    /\ \E name \in Names :
        /\ inp' = [menu |-> "3", name |-> name]
        /\ IF edit_quiz_found(quizzes, name)
           THEN /\ pc' = "edit"
                /\ quiz_name' = name
                /\ out' = <<>>
           ELSE /\ pc' = "main"
                /\ quiz_name' = quiz_name
                /\ out' = <<Line("Quiz not found!")>>
    /\ UNCHANGED <<file, file0, quizzes, quiz, idx, err>>
    /\ UNCHANGED gradeVars
    /\ UNCHANGED serdeVars

\* the outcome of one operation of the edit sub-loop: its effect, or the
\* KeyError it raises, which ends the program
EditStep(r, read) ==
    /\ inp' = read
    /\ IF r.ok
       THEN /\ quizzes' = r.quizzes
            /\ out' = r.out
            /\ pc' = "edit"
            /\ quiz_name' = quiz_name
            /\ err' = err
       ELSE /\ quizzes' = quizzes
            /\ out' = <<>>
            /\ pc' = "crashed"
            /\ quiz_name' = quiz_name
            /\ err' = [error |-> r.error, where |-> "edit_quiz"]
    /\ UNCHANGED <<file, file0, quiz, idx>>
    /\ UNCHANGED gradeVars
    /\ UNCHANGED serdeVars

\* edit menu, choice "1"
EditAddQuestion ==
    /\ pc = "edit"
    /\ TotalQuestions(quizzes) < MaxQuestions
    /\ \E typed \in AddInputs :
        EditStep(add_question_to_quiz(quizzes, quiz_name, typed),
                 [menu |-> "1", typed |-> typed])

\* edit menu, choice "2"
EditRemoveQuestion ==
    /\ pc = "edit"
    /\ \E typed \in RemoveInputs :
        LET r == remove_question_from_quiz(quizzes, quiz_name, typed)
        IN EditStep(r, IF r.ok /\ r.read
                       THEN [menu |-> "2", line |-> typed]
                       ELSE [menu |-> "2"])

\* edit menu, choice "3"
EditViewQuestions ==
    /\ pc = "edit"
    /\ EditStep(view_questions(quizzes, quiz_name), [menu |-> "3"])

\* edit menu, choice "4"
EditDone ==
    /\ pc = "edit"
    /\ inp' = [menu |-> "4"]
    /\ pc' = "main"
    /\ quiz_name' = NoName
    /\ out' = <<>>
    /\ UNCHANGED <<file, file0, quizzes, quiz, idx, err>>
    /\ UNCHANGED gradeVars
    /\ UNCHANGED serdeVars

\* edit menu, any other choice
EditInvalid ==
    /\ pc = "edit"
    /\ \E choice \in InvalidChoices : inp' = [menu |-> choice]
    /\ out' = <<Line("Invalid option!")>>
    /\ UNCHANGED <<file, file0, quizzes, pc, quiz_name, quiz, idx, err>>
    /\ UNCHANGED gradeVars
    /\ UNCHANGED serdeVars

\* main menu, choice "4": Quiz(...).start() up to its first prompt, or to
\* its end when the quiz has no questions
TakeQuiz ==
    /\ pc = "main"
    /\ \E name \in Names :
        /\ inp' = [menu |-> "4", name |-> name]
        /\ IF name \in DOMAIN quizzes
           THEN LET started == Quiz(quizzes[name])
                IN IF started.questions = <<>>
                   THEN /\ out' = <<Line("Starting the Quiz!")>> \o finished(started)
                        /\ pc' = "main"
                        /\ quiz' = NoQuiz
                        /\ quiz_name' = NoName
                   ELSE /\ out' = <<Line("Starting the Quiz!")>>
                                     \o ask(started.questions, 1)
                        /\ pc' = "quiz"
                        /\ quiz' = started
                        /\ quiz_name' = name
           ELSE /\ out' = <<Line("Quiz not found!")>>
                /\ pc' = "main"
                /\ quiz' = quiz
                /\ quiz_name' = quiz_name
    /\ idx' = 0
    /\ UNCHANGED <<file, file0, quizzes, err>>
    /\ UNCHANGED gradeVars
    /\ UNCHANGED serdeVars

\* one answer typed in Quiz.start: the rest of the iteration, then the next
\* question up to its prompt, or the final report.  The Quiz object goes
\* out of use with the report.
QuizAnswer ==
    /\ pc = "quiz"
    /\ \E answer \in QuizAnswers :
        LET graded == grade_answer(quiz.questions[idx + 1], quiz.score, answer)
            after  == [quiz EXCEPT !.score = graded.score]
        IN /\ inp' = [menu |-> "answer", answer |-> answer]
           /\ IF idx + 1 < Len(quiz.questions)
              THEN /\ out' = out \o graded.out \o ask(quiz.questions, idx + 2)
                   /\ idx' = idx + 1
                   /\ quiz' = after
                   /\ pc' = "quiz"
                   /\ quiz_name' = quiz_name
              ELSE /\ out' = out \o graded.out \o finished(after)
                   /\ idx' = 0
                   /\ quiz' = NoQuiz
                   /\ pc' = "main"
                   /\ quiz_name' = NoName
    /\ UNCHANGED <<file, file0, quizzes, err>>
    /\ UNCHANGED gradeVars
    /\ UNCHANGED serdeVars

\* Exit without the save
Exit_without_save ==
    /\ pc = "main"
    /\ inp' = [menu |-> "5"]
    /\ out' = <<Line("Goodbye!")>>
    /\ pc' = "exited"
    /\ UNCHANGED <<file, file0, quizzes, quiz_name, quiz, idx, err>>
    /\ UNCHANGED gradeVars
    /\ UNCHANGED serdeVars

\* main menu, choice "5"
Exit ==
    /\ pc = "main"
    /\ inp' = [menu |-> "5"]
    /\ file' = save_quizzes(quizzes)
    /\ out' = <<Line("Goodbye!")>>
    /\ pc' = "exited"
    /\ UNCHANGED <<file0, quizzes, quiz_name, quiz, idx, err>>
    /\ UNCHANGED gradeVars
    /\ UNCHANGED serdeVars

\* main menu, any other choice
InvalidChoice ==
    /\ pc = "main"
    /\ \E choice \in InvalidChoices : inp' = [menu |-> choice]
    /\ out' = <<Line("Invalid option!")>>
    /\ UNCHANGED <<file, file0, quizzes, pc, quiz_name, quiz, idx, err>>
    /\ UNCHANGED gradeVars
    /\ UNCHANGED serdeVars

Next ==
    \/ Construct
    \/ ViewQuizzes
    \/ AddQuiz
    \/ EditQuiz
    \/ EditAddQuestion
    \/ EditRemoveQuestion
    \/ EditViewQuestions
    \/ EditDone
    \/ EditInvalid
    \/ TakeQuiz
    \/ QuizAnswer
    \/ Exit
    \/ InvalidChoice

Spec == Init /\ [][Next]_vars

-----------------------------------------------------------------------------
(* Claims about the Question classes *)

\* the 1-based positions of q.choices that answer names and whose text is
\* the correct answer after trimming and lower-casing
MatchingChoices(q, answer) ==
    {i \in 1..Len(q.choices) :
        /\ int(answer).ok
        /\ int(answer).value = i
        /\ lower(strip(q.choices[i])) = lower(strip(q.correct_answer))}

\* C1 (as claimed): a multiple-choice answer is graded correct exactly when
\* it parses as an integer i with 1 <= i <= len(choices) and choices[i]
\* equals correct_answer after trimming and lower-casing; every other
\* answer (0, negative, too large, non-numeric) is graded not correct.
C1_OneBasedIndexOnly ==
    (gresult # "pending" /\ gq.class = "MultipleChoiceQuestion")
        => (gresult = "True" <=> MatchingChoices(gq, ganswer) # {})

\* C3: create_question(q.to_dict()) succeeds and yields a question of the
\* same class with the same question_text, correct_answer and choices, so
\* it grades every answer as q does.
C3_RoundTrip ==
    (spc = "done" /\ sobj # NoQuestion)
        => /\ sout.ok
           /\ sout.q.class = sobj.class
           /\ sout.q = sobj
           /\ \A a \in ExtraAnswers : is_correct(sout.q, a) = is_correct(sobj, a)

C3_Witness ==
    /\ spc = "done"
    /\ sobj = MultipleChoiceQuestion(Capital, ThreeCities, Paris)
    /\ sout.ok
    /\ sout.q.choices = ThreeCities

\* the keys a record needs for the variant its discriminator selects
RequiredKeys(data) ==
    IF data["type"] = "MultipleChoice"
    THEN {"question_text", "choices", "correct_answer"}
    ELSE {"question_text", "correct_answer"}

\* the class the discriminator selects
SelectedClass(data) ==
    IF data["type"] = "MultipleChoice" THEN "MultipleChoiceQuestion"
    ELSE IF data["type"] = "TrueFalse" THEN "TrueFalseQuestion"
    ELSE "Question"

\* C9: deserialising a record with a discriminator builds the variant the
\* discriminator selects (Plain for every unknown discriminator) when all
\* keys of that variant are present, and fails with a KeyError naming a
\* missing key when one is absent.
C9_DispatchAndMissingField ==
    (spc = "done" /\ "type" \in DOMAIN srec)
        => IF RequiredKeys(srec) \subseteq DOMAIN srec
           THEN sout.ok /\ sout.q.class = SelectedClass(srec)
           ELSE /\ ~sout.ok
                /\ sout.error = "KeyError"
                /\ sout.key \in RequiredKeys(srec) \ DOMAIN srec

C9_Witness ==
    /\ spc = "done"
    /\ "type" \in DOMAIN srec
    /\ srec["type"] = "MultipleChoice"
    /\ DOMAIN srec = {"type", "question_text", "correct_answer"}
    /\ ~sout.ok
    /\ sout.key = "choices"

-----------------------------------------------------------------------------
(* Claims about the manager, the runner and the menu loop *)

Last(seq) == seq[Len(seq)]

\* a dict that holds every key of the question variant its type selects
IsQuestionRecord(data) ==
    "type" \in DOMAIN data /\ RequiredKeys(data) \subseteq DOMAIN data

\* a JSON document that maps quiz names to lists of question records
IsQuizDocument(value) ==
    /\ value.t = "dict"
    /\ \A name \in DOMAIN value.items :
        LET questions == value.items[name]
        IN /\ questions.t = "list"
           /\ \A i \in DOMAIN questions.items :
                /\ questions.items[i].t = "dict"
                /\ IsQuestionRecord(questions.items[i].items)

\* a bad persistence file: absent, not JSON, or not a quiz document
BadFile(f) ==
    \/ f.kind = "absent"
    \/ ~f.json
    \/ ~IsQuizDocument(f.value)

\* C2 (as claimed): whenever the persistence file is absent, not parseable
\* as JSON, or not an object mapping quiz names to lists of question
\* records, construction raises nothing and the session starts with the
\* empty mapping.
C2_BadFileLoadsEmpty ==
    (pc # "init" /\ BadFile(file0))
        => /\ pc # "crashed"
           /\ err = NoError
           /\ (inp.menu = "none" => quizzes = <<>>)

\* C4: started from a nonexistent file, once the session has saved on
\* exit, loading the file yields the in-memory mapping: the same quiz
\* names, each with the same questions in the same order.
C4_SaveLoadRoundTrip ==
    (pc = "exited" /\ file0 = AbsentFile)
        => LET loaded == load_quizzes(file)
           IN /\ loaded.ok
              /\ DOMAIN loaded.quizzes = DOMAIN quizzes
              /\ \A name \in DOMAIN quizzes : loaded.quizzes[name] = quizzes[name]

C4_Witness ==
    /\ pc = "exited"
    /\ file0 = AbsentFile
    /\ DOMAIN quizzes = {"Geo", "Math"}
    /\ Len(quizzes["Geo"]) = 2
    /\ quizzes["Geo"][1].class = "MultipleChoiceQuestion"
    /\ quizzes["Geo"][2].class = "TrueFalseQuestion"
    /\ quizzes["Math"] = <<>>

\* C5: add_quiz(name) on an absent name inserts an empty list and changes
\* no other quiz; on a present name it reports "already exists" and leaves
\* the whole mapping, that quiz's questions included, as it was.
C5_AddQuiz ==
    [][(pc = "main" /\ inp'.menu = "2")
        => LET name == inp'.name
           IN IF name \in DOMAIN quizzes
              THEN /\ quizzes' = quizzes
                   /\ out' = <<Line("Quiz already exists!")>>
              ELSE /\ DOMAIN quizzes' = DOMAIN quizzes \cup {name}
                   /\ quizzes'[name] = <<>>
                   /\ \A n \in DOMAIN quizzes : quizzes'[n] = quizzes[n]
                   /\ out' # <<Line("Quiz already exists!")>>]_vars

C5_Witness ==
    /\ pc = "main"
    /\ inp.menu = "2"
    /\ out = <<Line("Quiz already exists!")>>
    /\ quizzes[inp.name] # <<>>
    /\ DOMAIN quizzes = Names

\* C6: remove_question_from_quiz on a quiz with list L raises nothing and
\* changes no other quiz; for an empty L, a non-numeric line or a number
\* outside [1, len(L)] it reports the failure and leaves L as it was; for
\* a number i in [1, len(L)] it removes exactly the i-th question and
\* keeps the others in their order.
C6_RemoveQuestion ==
    [][(pc = "edit" /\ inp'.menu = "2")
        => LET L  == quizzes[quiz_name]
               L2 == quizzes'[quiz_name]
           IN /\ pc' = "edit"
              /\ err' = NoError
              /\ DOMAIN quizzes' = DOMAIN quizzes
              /\ \A n \in DOMAIN quizzes \ {quiz_name} : quizzes'[n] = quizzes[n]
              /\ IF L = <<>>
                 THEN /\ L2 = <<>>
                      /\ out' = <<Line("No questions to remove!")>>
                 ELSE LET typed == int(inp'.line)
                      IN IF typed.ok /\ typed.value \in 1..Len(L)
                         THEN /\ Len(L2) = Len(L) - 1
                              /\ \A k \in 1..Len(L2) :
                                    L2[k] = IF k < typed.value THEN L[k] ELSE L[k + 1]
                              /\ Last(out').line = "Removed question"
                              /\ Last(out').text = L[typed.value].question_text
                         ELSE /\ L2 = L
                              /\ Last(out').line \in
                                    {"Invalid input!", "Invalid question number!"}]_vars

C6_Witness ==
    /\ pc = "edit"
    /\ inp.menu = "2"
    /\ Last(out).line = "Removed question"
    /\ inp.line = <<" ","2"," ">>
    /\ Len(quizzes[quiz_name]) = 2
    /\ quizzes[quiz_name][1].class # quizzes[quiz_name][2].class

\* C7: the persistence file changes only in the step that takes Exit from
\* the main menu, and that step writes the serialised in-memory mapping
\* and ends the loop.
C7_OnlyExitSaves ==
    [][/\ (file' # file) => (pc = "main" /\ inp'.menu = "5")
       /\ (pc = "main" /\ inp'.menu = "5")
            => /\ file' = json_dump(PyDict([name \in DOMAIN quizzes |->
                      PyList([i \in DOMAIN quizzes[name] |->
                                 PyDict(to_dict(quizzes[name][i]))])]))
               /\ load_quizzes(file').ok
               /\ load_quizzes(file').quizzes = quizzes
               /\ quizzes' = quizzes
               /\ pc' = "exited"]_vars

C7_Witness ==
    /\ pc = "exited"
    /\ inp.menu = "5"
    /\ file # file0
    /\ \E name \in DOMAIN quizzes : Len(quizzes[name]) = 2

IsAsked(l)   == l.line = "Question"
IsText(l)    == l.line = "text"
IsVerdict(l) == l.line \in {"Correct!", "Wrong!"}
IsCorrect(l) == l.line = "Correct!"

\* the lines of a run show the first n questions, once each and in order
AskedInOrder(lines, questions, n) ==
    LET asked == SelectSeq(lines, IsAsked)
        texts == SelectSeq(lines, IsText)
    IN /\ Len(asked) = n
       /\ Len(texts) = n
       /\ \A i \in 1..n : /\ asked[i].idx = i
                          /\ texts[i].text = questions[i].question_text

\* the final report of a run over questions
ReportsScore(lines, questions) ==
    LET report == Last(lines)
        right  == Len(SelectSeq(lines, IsCorrect))
    IN /\ report.line = "Quiz Finished!"
       /\ report.total = Len(questions)
       /\ report.score = right
       /\ 0 <= report.score /\ report.score <= report.total
       /\ Len(SelectSeq(lines, IsVerdict)) = Len(questions)
       /\ AskedInOrder(lines, questions, Len(questions))

\* C8: a quiz run asks the questions of the list it was given once each
\* and in order; each answer is reported correct exactly when is_correct
\* holds of it; the final report gives the number of correct answers over
\* the length of the list.
C8_QuizRun ==
    [][/\ (pc' = "quiz")
            => /\ quiz'.questions = quizzes'[quiz_name']
               /\ AskedInOrder(out', quiz'.questions, idx' + 1)
               /\ Len(SelectSeq(out', IsVerdict)) = idx'
               /\ quiz'.score = Len(SelectSeq(out', IsCorrect))
       /\ (pc = "quiz")
            => /\ IsCorrect(out'[Len(out) + 1])
                    <=> is_correct(quiz.questions[idx + 1], inp'.answer)
               /\ IsVerdict(out'[Len(out) + 1])
               /\ (pc' = "main") <=> (idx + 1 = Len(quiz.questions))
               /\ (pc' = "main") => ReportsScore(out', quiz.questions)
       /\ (pc = "main" /\ inp'.menu = "4" /\ pc' = "main"
             /\ inp'.name \in DOMAIN quizzes)
            => /\ quizzes[inp'.name] = <<>>
               /\ ReportsScore(out', <<>>)]_vars

C8_Witness ==
    /\ pc = "main"
    /\ inp.menu = "answer"
    /\ Last(out).line = "Quiz Finished!"
    /\ Last(out).total = 3
    /\ Last(out).score = 2

\* C10: the edit sub-loop and the quiz runner only ever run for a quiz
\* name present in the mapping, no lookup of a missing name raises, and
\* edit_quiz on an absent name reports "not found", returns to the main
\* menu and leaves the name absent.
C10_OnlyPresentNames ==
    /\ (pc \in {"edit", "quiz"}) => quiz_name \in DOMAIN quizzes
    /\ (pc = "crashed") => err.where = "load_quizzes"
    /\ (pc = "main" /\ inp.menu = "3")
            => /\ out = <<Line("Quiz not found!")>>
               /\ inp.name \notin DOMAIN quizzes

C10_Witness ==
    /\ pc = "main"
    /\ inp.menu = "3"
    /\ inp.name = "Math"
    /\ out = <<Line("Quiz not found!")>>
    /\ DOMAIN quizzes = {"Geo"}
    /\ quizzes["Geo"] # <<>>

====
